---- MODULE Spec2Model ----
(***************************************************************************)
(* UCare chat backend: the POST /api/chat handler (backend/index.js) and   *)
(* the file-backed conversation memory (backend/memory.js).                *)
(*                                                                         *)
(* Strings are TLA+ strings; the JavaScript string methods the code uses   *)
(* (toLowerCase, includes, trim, split, join) are defined below on them.   *)
(***************************************************************************)
EXTENDS Integers, Sequences, FiniteSets, TLC

VARIABLES
    file,        \* conversation_memory.json: [kind, items]
    clock,       \* the value the next Date.now() returns
    appended,    \* history: the exchanges whose write succeeded, in order
    writeFailures, \* history: number of writeFileSync calls that have thrown
    ctx,         \* memory spec: what the getImportantContext() call just made returned
    lastOp,      \* memory spec: the last operation performed on the memory
    pc,          \* per request: position of the async handler
    reqId,       \* per request: the number of the request in arrival order
    message,     \* per request: req.body.message
    pyOut,       \* per request: how PythonShell.run settled, while the handler runs
    emotion,     \* per request: the emotion label, while the handler runs
    prompt,      \* per request: the variable parts of the prompt, while Gemini is awaited
    geminiOut,   \* per request: how the generateContent call settled
    res,         \* per request: the HTTP response sent
    path,        \* per request: the branch of the handler that answered
    calls,       \* per request: number of calls made to each collaborator
    added,       \* per request: the addExchange calls it made
    served,      \* number of requests received so far
    client,      \* the chat page: its React state, pending timers and fetches
    escalation   \* the chat page: the state of its escalation state machine

vars == <<file, clock, appended, writeFailures, ctx, lastOp, pc, reqId, message,
          pyOut, emotion, prompt, geminiOut, res, path, calls, added, served, client,
          escalation>>

memVars == <<file, clock, appended, writeFailures, ctx, lastOp>>
reqVars == <<pc, reqId, message, pyOut, emotion, prompt, geminiOut, res, path, calls, added, served>>

-----------------------------------------------------------------------------
(* Bounds of the model *)

NumRequests == 2      \* request slots handled concurrently by the process
MaxServed == 2        \* requests received in one behaviour
MaxAppends == 12      \* addExchange calls in one behaviour of the memory spec
RandSteps == 3        \* Math.random() takes the values k / RandSteps
MaxSends == 2         \* fetches the chat page issues in one behaviour
MaxTurns == 4         \* messages sent in one session of the escalation machine
MaxTimers == 1        \* setTimeout callbacks pending at once
MaxWriteFailures == 1 \* writeFileSync calls that throw in one behaviour

-----------------------------------------------------------------------------
(* JavaScript string and array methods *)

UpperChars == "ABCDEFGHIJKLMNOPQRSTUVWXYZ"
LowerChars == "abcdefghijklmnopqrstuvwxyz"

charAt(s, i) == SubSeq(s, i, i)

lowerChar(c) ==
    LET at == {i \in 1..Len(UpperChars) : charAt(UpperChars, i) = c}
    IN  IF at = {} THEN c ELSE charAt(LowerChars, CHOOSE i \in at : TRUE)

RECURSIVE toLowerCase(_)
toLowerCase(s) ==
    IF Len(s) = 0 THEN ""
    ELSE lowerChar(charAt(s, 1)) \o toLowerCase(SubSeq(s, 2, Len(s)))

\* String.prototype.indexOf: the first position (1-based) of k in s, 0 if none
indexOf(s, k) ==
    LET hits == {i \in 1..(Len(s) - Len(k) + 1) : SubSeq(s, i, i + Len(k) - 1) = k}
    IN  IF hits = {} THEN 0 ELSE CHOOSE i \in hits : \A j \in hits : i <= j

includes(s, k) == Len(k) = 0 \/ indexOf(s, k) > 0

isSpace(c) == c \in {" ", "\n", "\t", "\r"}

RECURSIVE trimStart(_)
trimStart(s) ==
    IF Len(s) > 0 /\ isSpace(charAt(s, 1)) THEN trimStart(SubSeq(s, 2, Len(s))) ELSE s

RECURSIVE trimEnd(_)
trimEnd(s) ==
    IF Len(s) > 0 /\ isSpace(charAt(s, Len(s))) THEN trimEnd(SubSeq(s, 1, Len(s) - 1)) ELSE s

trim(s) == trimEnd(trimStart(s))

\* String.prototype.split with a non-empty string separator
RECURSIVE split(_, _)
split(s, sep) ==
    LET i == indexOf(s, sep)
    IN  IF i = 0 THEN <<s>>
        ELSE <<SubSeq(s, 1, i - 1)>> \o split(SubSeq(s, i + Len(sep), Len(s)), sep)

\* Array.prototype.join
RECURSIVE join(_, _)
join(arr, sep) ==
    IF Len(arr) = 0 THEN ""
    ELSE IF Len(arr) = 1 THEN arr[1]
    ELSE arr[1] \o sep \o join(Tail(arr), sep)

\* Array.prototype.slice(-n): the last n elements (all of them if fewer)
sliceLast(items, n) ==
    IF Len(items) <= n THEN items ELSE SubSeq(items, Len(items) - n + 1, Len(items))

\* Array.prototype.some over a list of keywords
someIncluded(s, keywords) == \E i \in 1..Len(keywords) : includes(s, keywords[i])

-----------------------------------------------------------------------------
(* backend/memory.js *)

MAX_ITEMS == 10

\* The states of the memory file on disk
Absent == [kind |-> "absent", items |-> <<>>]     \* the file does not exist
Garbage == [kind |-> "garbage", items |-> <<>>]   \* content JSON.parse rejects
NonList == [kind |-> "nonlist", items |-> <<>>]   \* valid JSON, not an array
ListFile(items) == [kind |-> "list", items |-> items]

readMemory(f) == IF f.kind = "list" THEN f.items ELSE <<>>

\* outcome: "ok" the write completes; "fail" writeFileSync throws before the
\* file is touched; "partial" it throws after the file was truncated
WriteOutcomes == {"ok", "fail", "partial"}

\* faulty variant: the list is written without being cut to MAX_ITEMS
writeMemoryNoSlice(f, items, outcome) ==
    CASE outcome = "ok" -> ListFile(items)
      [] outcome = "fail" -> f
      [] outcome = "partial" -> Garbage

writeMemory(f, items, outcome) ==
    CASE outcome = "ok" -> ListFile(sliceLast(items, MAX_ITEMS))
      [] outcome = "fail" -> f
      [] outcome = "partial" -> Garbage

Exchange(userText, botText, now) == [user |-> userText, bot |-> botText, ts |-> now]

\* faulty variant: the new exchange is put at the head of the list
addExchangeUnshift(f, userText, botText, now, outcome) ==
    writeMemory(f, <<Exchange(userText, botText, now)>> \o readMemory(f), outcome)

\* faulty variant: a document that cannot be read is not overwritten
addExchangeSkipsUnreadable(f, userText, botText, now, outcome) ==
    IF f.kind \in {"garbage", "nonlist"} THEN f
    ELSE writeMemory(f, Append(readMemory(f), Exchange(userText, botText, now)), outcome)

\* faulty variant: the list is not read first, the new exchange is written alone
addExchangeForgetful(f, userText, botText, now, outcome) ==
    writeMemory(f, <<Exchange(userText, botText, now)>>, outcome)

addExchange(f, userText, botText, now, outcome) ==
    writeMemory(f, Append(readMemory(f), Exchange(userText, botText, now)), outcome)

renderExchange(it) == "User: " \o it.user \o "\nBot: " \o it.bot

\* faulty variant: the context is built from the last two exchanges only
getImportantContextLast2(f) ==
    LET last2 == sliceLast(readMemory(f), 2)
    IN  join([i \in 1..Len(last2) |-> renderExchange(last2[i])], "\n")

\* faulty variant: nothing is returned unless three exchanges exist
getImportantContextFull3(f) ==
    LET last3 == sliceLast(readMemory(f), 3)
    IN  IF Len(last3) < 3 THEN ""
        ELSE join([i \in 1..Len(last3) |-> renderExchange(last3[i])], "\n")

getImportantContext(f) ==
    LET last3 == sliceLast(readMemory(f), 3)
    IN  join([i \in 1..Len(last3) |-> renderExchange(last3[i])], "\n")

\* The effect of one addExchange call on the memory and its history
DoAddExchange(userText, botText, outcome) ==
    /\ file' = addExchange(file, userText, botText, clock, outcome)
    /\ clock' = clock + 1
    /\ appended' = IF outcome = "ok"
                   THEN Append(appended, Exchange(userText, botText, clock))
                   ELSE appended
    /\ writeFailures' = writeFailures + (IF outcome = "ok" THEN 0 ELSE 1)

-----------------------------------------------------------------------------
(* backend/index.js: constants *)

INDIAN_HELPLINE == [phone |-> "9152987821", website |-> "https://manastha.com/"]

\* The reply pools, without their emoji
DEMO_REPLIES == <<
    "Hey there! How's your day going? Remember, it's totally okay to not be okay sometimes.",
    "Hi friend! I'm here to chat whenever you need someone to talk to. What's on your mind?",
    "Hello! You know what? Taking care of your mental health is just as important as physical health. How are you feeling right now?",
    "Hey! Thanks for reaching out. Sometimes just talking about what's bothering us can make a huge difference. Want to share?",
    "Hi there! I'm glad you're here. Remember, you're stronger than you think, and it's okay to ask for help when you need it.",
    "Hello friend! How about we take a moment to breathe together? Inhale for 4 counts, hold for 4, exhale for 4. How does that feel?",
    "Hey! Sometimes the best thing we can do is just be kind to ourselves. What's something nice you could do for yourself today?",
    "Hi! Remember, every day is a fresh start. What's one small thing you're looking forward to today?",
    "Hey there! You know what helps me? Writing down three things I'm grateful for. Want to try it together?",
    "Hello! It's totally normal to have ups and downs. The important thing is that you're here and you're trying. That's brave!",
    "Hi friend! Sometimes we all need a little reminder that we're doing better than we think. You're doing great!",
    "Hey! Remember, you don't have to have it all figured out. It's okay to take things one step at a time.",
    "Hello! You know what's amazing? The fact that you're reaching out for support. That takes courage!",
    "Hi there! How about we do a quick check-in? On a scale of 1-10, how are you feeling right now?",
    "Hey! Sometimes the best conversations start with 'I'm not okay.' It's totally fine to not be okay. Want to talk about it?" >>

GREETING_RESPONSES == <<
    "Hey there! Welcome to UCare! I'm your AI mental health buddy. How are you feeling today?",
    "Hi friend! Great to see you here! I'm here to listen and chat whenever you need someone to talk to.",
    "Hello! Thanks for stopping by! How's your mental health journey going today?",
    "Hey! Welcome! I'm here to support you through whatever you're going through. What's on your mind?",
    "Hi there! Nice to meet you! I'm your mental health companion. How can I help you today?",
    "Hello! Welcome to the UCare family! I'm here to chat, listen, and support you. How are you doing?",
    "Hey! Great to have you here! I'm your AI friend who's here to help with whatever's on your mind.",
    "Hi! Welcome! I'm here to be your mental health companion. What would you like to talk about today?" >>

greetings == <<"hi", "hello", "hey", "good morning", "good afternoon", "good evening", "sup", "yo">>

isGreeting(msg) == someIncluded(toLowerCase(msg), greetings)

crisisKeywords == <<"suicide", "kill myself", "end my life", "self-harm", "hurt myself",
                    "take my life", "i want to die", "i want die", "cut myself">>

\* faulty variant: the keywords are searched in the message as typed
isCrisisCaseSensitive(msg) == someIncluded(msg, crisisKeywords)

isCrisis(msg) == someIncluded(toLowerCase(msg), crisisKeywords)

crisisMsg ==
    "I hear your pain. If you are thinking about harming yourself, please know you don't have to go through this alone. You can reach out to someone you trust, or call "
    \o INDIAN_HELPLINE.phone \o " or visit " \o INDIAN_HELPLINE.website
    \o " for immediate support."

helplineSuffix ==
    "\n\nIf you feel overwhelmed, consider calling " \o INDIAN_HELPLINE.phone
    \o " or visiting " \o INDIAN_HELPLINE.website \o " for professional support."

\* !message: the field is missing or falsy (the empty string among others)
isFalsy(msg) == ~msg.present \/ (msg.string /\ msg.text = "")

-----------------------------------------------------------------------------
(* backend/index.js: emotion detection *)

\* What JSON.parse makes of one output line of emotion_analyzer.py:
\* "invalid" (it throws), "null", or an object with top_emotion ("" if the
\* field is missing or falsy)
PyLine(json, top) == [json |-> json, top_emotion |-> top]

\* What PythonShell.run does: it throws, or resolves to the output lines
PyNotSettled == [throws |-> FALSE, lines |-> <<PyLine("pending", "")>>]

PyResults == {
    [throws |-> TRUE, lines |-> <<>>],
    [throws |-> FALSE, lines |-> <<>>],
    [throws |-> FALSE, lines |-> <<PyLine("object", "sadness"), PyLine("invalid", "")>>],
    [throws |-> FALSE, lines |-> <<PyLine("null", "")>>],
    [throws |-> FALSE, lines |-> <<PyLine("object", "")>>],
    [throws |-> FALSE, lines |-> <<PyLine("invalid", ""), PyLine("object", "sadness")>>] }

\* faulty variant: the first line that parses to an object decides
detectEmotionAnyLine(result) ==
    IF result.throws THEN "neutral"
    ELSE LET objs == SelectSeq(result.lines,
                               LAMBDA l : l.json = "object" /\ l.top_emotion # "")
         IN  IF objs = <<>> THEN "neutral" ELSE objs[1].top_emotion

detectEmotion(result) ==
    IF result.throws THEN "neutral"
    ELSE IF Len(result.lines) = 0 THEN "neutral"
    ELSE LET last == result.lines[Len(result.lines)]
         IN  IF last.json # "object" THEN "neutral"
             ELSE IF last.top_emotion = "" THEN "neutral"
             ELSE last.top_emotion

emotionInstruction(e) ==
    CASE e = "sadness" -> "The user feels sadness. Respond with empathy, validation, and warmth."
      [] e = "happiness" -> "The user feels happy. Respond with encouragement and positive energy."
      [] e = "anger" -> "The user may feel anger or frustration. Respond calmly, validate feelings, and suggest gentle coping."
      [] e = "fear" -> "The user feels fear or anxiety. Be soothing and offer a simple grounding tip."
      [] OTHER -> "Respond with a supportive, friendly tone."

\* faulty variant: the recent context is left out of the prompt
composePromptNoContext(e, contextSnippet, msg) ==
    [instruction |-> emotionInstruction(e),
     context |-> "(no recent context)",
     message |-> msg]

\* The parts of the prompt that vary from request to request
composePrompt(e, contextSnippet, msg) ==
    [instruction |-> emotionInstruction(e),
     context |-> IF contextSnippet = "" THEN "(no recent context)" ELSE contextSnippet,
     message |-> msg]

-----------------------------------------------------------------------------
(* backend/index.js: parsing of the model's output *)

Sentinel == "StressLevel:"

\* faulty variant: "high" is looked for before "very high"
stressLevelOfHighFirst(stressLevelRaw) ==
    IF includes(stressLevelRaw, "high") THEN 2
    ELSE IF includes(stressLevelRaw, "very high") THEN 3
    ELSE IF includes(stressLevelRaw, "mid") THEN 1
    ELSE 0

stressLevelOf(stressLevelRaw) ==
    IF includes(stressLevelRaw, "very high") THEN 3
    ELSE IF includes(stressLevelRaw, "high") THEN 2
    ELSE IF includes(stressLevelRaw, "mid") THEN 1
    ELSE 0

\* faulty variant: the helpline reminder is appended from level 2 on
parseResponseSuffixFromHigh(text) ==
    LET parts == split(text, Sentinel)
        botText == parts[1]
        rest == Tail(parts)
        stressLevelRaw == toLowerCase(trim(join(rest, Sentinel)))
        stressLevel == stressLevelOf(stressLevelRaw)
        finalBotText == IF stressLevel >= 2
                        THEN trim(botText) \o helplineSuffix
                        ELSE trim(botText)
    IN  [response |-> finalBotText, stressLevel |-> stressLevel]

\* faulty variant: the text is cut at the last sentinel instead of the first
parseResponseLastSentinel(text) ==
    LET parts == split(text, Sentinel)
        botText == join(SubSeq(parts, 1, Len(parts) - 1), Sentinel)
        rest == IF Len(parts) > 1 THEN <<parts[Len(parts)]>> ELSE <<>>
        stressLevelRaw == toLowerCase(trim(join(rest, Sentinel)))
        stressLevel == stressLevelOf(stressLevelRaw)
        finalBotText == IF stressLevel = 3
                        THEN trim(IF Len(parts) > 1 THEN botText ELSE parts[1]) \o helplineSuffix
                        ELSE trim(IF Len(parts) > 1 THEN botText ELSE parts[1])
    IN  [response |-> finalBotText, stressLevel |-> stressLevel]

\* faulty variant: the level is reported but the helpline reminder is left out
parseResponseNoSuffix(text) ==
    LET parts == split(text, Sentinel)
        botText == parts[1]
        rest == Tail(parts)
        stressLevelRaw == toLowerCase(trim(join(rest, Sentinel)))
        stressLevel == stressLevelOf(stressLevelRaw)
    IN  [response |-> trim(botText), stressLevel |-> stressLevel]

\* faulty variant: the reply body is not trimmed
parseResponseNoTrim(text) ==
    LET parts == split(text, Sentinel)
        botText == parts[1]
        rest == Tail(parts)
        stressLevelRaw == toLowerCase(trim(join(rest, Sentinel)))
        stressLevel == stressLevelOf(stressLevelRaw)
        finalBotText == IF stressLevel = 3 THEN botText \o helplineSuffix ELSE botText
    IN  [response |-> finalBotText, stressLevel |-> stressLevel]

parseResponse(text) ==
    LET parts == split(text, Sentinel)
        botText == parts[1]
        rest == Tail(parts)
        stressLevelRaw == toLowerCase(trim(join(rest, Sentinel)))
        stressLevel == stressLevelOf(stressLevelRaw)
        finalBotText == IF stressLevel = 3
                        THEN trim(botText) \o helplineSuffix
                        ELSE trim(botText)
    IN  [response |-> finalBotText, stressLevel |-> stressLevel]

\* Math.floor(Math.random() * pool.length), for Math.random() = k / RandSteps
randomIndex(k, len) == (k * len) \div RandSteps

\* faulty variant: the general pool is used for every message
fallbackReplyGeneralOnly(greeting, k) ==
    DEMO_REPLIES[randomIndex(k, Len(DEMO_REPLIES)) + 1]

fallbackReply(greeting, k) ==
    IF greeting
    THEN GREETING_RESPONSES[randomIndex(k, Len(GREETING_RESPONSES)) + 1]
    ELSE DEMO_REPLIES[randomIndex(k, Len(DEMO_REPLIES)) + 1]

-----------------------------------------------------------------------------
(* The chat page (React): state and handlers *)

\* (the emoji that ends the text is left out)
Welcome ==
    "Welcome to UCare! I'm your mental health companion. How are you feeling today? I'm here to listen and support you."

quickReplies == <<
    "I'm feeling anxious",
    "I need motivation",
    "I'm stressed",
    "I feel lonely",
    "I need a breathing exercise",
    "Tell me a positive quote" >>

\* useState initial values; no timer is pending and no fetch is outstanding
ClientInit ==
    [input |-> "",
     loading |-> FALSE,
     stressLevel |-> 0,
     messages |-> <<[from |-> "bot", text |-> Welcome]>>,
     timers |-> <<>>,
     inFlight |-> <<>>,
     sent |-> 0]

\* faulty variant: a blank input is sent like any other
sendMessageNoBlankCheck(cl, in) ==
    [cl EXCEPT !.messages = Append(@, [from |-> "user", text |-> in]),
               !.input = "",
               !.loading = TRUE,
               !.inFlight = Append(@, in),
               !.sent = @ + 1]

\* sendMessage up to its await: it works on the input of the render that
\* created it, which the caller passes as in
sendMessage(cl, in) ==
    IF trim(in) = "" THEN cl
    ELSE [cl EXCEPT !.messages = Append(@, [from |-> "user", text |-> in]),
                    !.input = "",
                    !.loading = TRUE,
                    !.inFlight = Append(@, in),
                    !.sent = @ + 1]

\* How a fetch settles: a success body with or without stressLevel, a 200
\* body holding an error, a status outside 200..299, or a network failure
FetchOk(body) == [kind |-> "ok", body |-> body]
FetchResults == {
    FetchOk([response |-> "Breathe slowly.", stressLevel |-> 0]),
    FetchOk([response |-> "I hear your pain.", stressLevel |-> 3]),
    FetchOk([response |-> "I'm here to listen."]),
    FetchOk([error |-> "Message is required."]),
    [kind |-> "http", body |-> [error |-> "Message is required."]],
    [kind |-> "network", body |-> [none |-> TRUE]] }

\* The text of the bot message the page shows for a settled fetch
botMessage(result) ==
    CASE result.kind = "network" ->
           "Unable to connect to the server. Please make sure the backend is running."
      [] result.kind = "http" -> "Server error. Please try again later."
      [] result.kind = "ok" /\ "error" \in DOMAIN result.body ->
           "Sorry, I am having trouble responding right now."
      [] OTHER -> result.body.response

\* sendMessage after its await, for the i-th outstanding fetch
receiveResponse(cl, i, result) ==
    [cl EXCEPT !.messages = Append(@, [from |-> "bot", text |-> botMessage(result)]),
               !.stressLevel = IF /\ result.kind = "ok"
                                  /\ "error" \notin DOMAIN result.body
                                  /\ "stressLevel" \in DOMAIN result.body
                               THEN result.body.stressLevel ELSE @,
               !.loading = FALSE,
               !.inFlight = SubSeq(@, 1, i - 1) \o SubSeq(@, i + 1, Len(@))]

\* sendMessage after its await as frontend/src/App.js has it: the same, but
\* setStressLevel is never called
receiveResponseAppJs(cl, i, result) ==
    [cl EXCEPT !.messages = Append(@, [from |-> "bot", text |-> botMessage(result)]),
               !.loading = FALSE,
               !.inFlight = SubSeq(@, 1, i - 1) \o SubSeq(@, i + 1, Len(@))]

-----------------------------------------------------------------------------
(* The chat page: the escalation state machine (specification, 4.8) *)

\* The client's own list of death and self-harm keywords
DeathKeywords == <<"die", "death", "kill myself", "suicide", "end it all">>

matchesDeathKeyword(text) == someIncluded(toLowerCase(text), DeathKeywords)

\* serverLevel before any response carried a level
NoLevel == -1

EscalationInit ==
    [serverLevel |-> NoLevel,
     deathMentionCount |-> 0,
     forced |-> FALSE,
     waiting |-> FALSE,
     sentTexts |-> <<>>]

\* Rules 1 and 4: on send the message is scanned and a match counted; the
\* level shown is forced to 4 when this message matched and the count has
\* reached 2
escalateOnSend(e, text) ==
    LET matched == matchesDeathKeyword(text)
        count == e.deathMentionCount + (IF matched THEN 1 ELSE 0)
    IN  [e EXCEPT !.deathMentionCount = count,
                  !.forced = matched /\ count >= 2,
                  !.waiting = TRUE,
                  !.sentTexts = Append(@, text)]

\* faulty variant: the level of the response replaces a forced level
escalateOnResponseClearsForced(e, reply) ==
    [e EXCEPT !.serverLevel = IF "stressLevel" \in DOMAIN reply THEN reply.stressLevel ELSE @,
              !.forced = IF "stressLevel" \in DOMAIN reply THEN FALSE ELSE @,
              !.waiting = FALSE]

\* Rule 2: a response with a numeric level sets serverLevel
escalateOnResponse(e, reply) ==
    [e EXCEPT !.serverLevel = IF "stressLevel" \in DOMAIN reply THEN reply.stressLevel ELSE @,
              !.waiting = FALSE]

\* faulty variant: Ultra is shown on the keyword count alone
displayedLevelCountOnly(e) ==
    IF e.forced \/ e.deathMentionCount >= 3 THEN 4
    ELSE IF e.serverLevel = NoLevel THEN 0 ELSE e.serverLevel

\* Rules 3 and 4: the level shown is 4 (Ultra) when it is forced or when
\* three matches were counted and the server reported level 3; otherwise it
\* is the level the server reported last (Low before any)
displayedLevel(e) ==
    IF e.forced \/ (e.deathMentionCount >= 3 /\ e.serverLevel = 3) THEN 4
    ELSE IF e.serverLevel = NoLevel THEN 0 ELSE e.serverLevel

-----------------------------------------------------------------------------
(* backend/index.js: the POST /api/chat handler *)

Requests == 1..NumRequests

Missing == [present |-> FALSE, string |-> FALSE, text |-> ""]
Text(s) == [present |-> TRUE, string |-> TRUE, text |-> s]
\* a truthy JSON value that is not a string, such as {"message": 42}
NonString == [present |-> TRUE, string |-> FALSE, text |-> ""]

\* The request bodies the clients send
Messages == {
    Missing,
    Text(""),
    Text("I want to DIE"),
    Text("Hey, I might Kill Myself"),
    Text("Hello"),
    Text("so tired"),
    NonString }

\* What generateContent does: it fails, or returns a text
GeminiError == [kind |-> "error", text |-> ""]
GeminiText(t) == [kind |-> "text", text |-> t]
NotSettled == [kind |-> "none", text |-> ""]

GeminiResults == {
    GeminiError,
    GeminiText(" Breathe slowly. \nStressLevel: low"),
    GeminiText("I am here.\nStressLevel: Very High"),
    GeminiText(" Stress is very high today. ") }

\* Outputs of the generative service for the parser: a reply body, then
\* nothing or the sentinel and a descriptor
ParserBodies == {"", " Rest a bit. ", "Stress is high.\n"}
ParserTails == {
    "",
    "StressLevel: low",
    "StressLevel: mid",
    "StressLevel: high",
    "StressLevel: very high",
    "StressLevel: VERY HIGH\n",
    "StressLevel:",
    "StressLevel:  High ",
    "StressLevel: very  high",
    "StressLevel: highly mid",
    "StressLevel: medium",
    "StressLevel: mid to very high",
    "StressLevel: low\nStressLevel: very high",
    "StressLevel: high StressLevel: mid",
    "stresslevel: very high",
    "Stress Level: high" }
ParserResults == {GeminiText(body \o tail) : body \in ParserBodies, tail \in ParserTails}

\* The handler's pure computations on these inputs, evaluated once
MessageTexts == {m.text : m \in Messages}
crisisMatch == [t \in MessageTexts |-> isCrisis(t)]
greetingMatch == [t \in MessageTexts |-> isGreeting(t)]
parsedResult == [g \in (GeminiResults \cup ParserResults) \ {GeminiError} |->
                    parseResponse(g.text)]

NoCalls == [python |-> 0, gemini |-> 0, context |-> 0]
NoPrompt == [instruction |-> "", context |-> "", message |-> ""]
NoRes == [status |-> 0, body |-> [none |-> TRUE]]

\* One addExchange call as the request made it
Added(userText, botText, outcome) == [user |-> userText, bot |-> botText, outcome |-> outcome]

NoRequests ==
    /\ pc = [r \in Requests |-> "idle"]
    /\ reqId = [r \in Requests |-> 0]
    /\ message = [r \in Requests |-> Missing]
    /\ pyOut = [r \in Requests |-> PyNotSettled]
    /\ emotion = [r \in Requests |-> "neutral"]
    /\ prompt = [r \in Requests |-> NoPrompt]
    /\ geminiOut = [r \in Requests |-> NotSettled]
    /\ res = [r \in Requests |-> NoRes]
    /\ path = [r \in Requests |-> "none"]
    /\ calls = [r \in Requests |-> NoCalls]
    /\ added = [r \in Requests |-> <<>>]
    /\ served = 0
    /\ client = ClientInit
    /\ escalation = EscalationInit

Init ==
    /\ file = Absent
    /\ clock = 1
    /\ appended = <<>>
    /\ writeFailures = 0
    /\ ctx = ""
    /\ lastOp = "none"
    /\ NoRequests

\* addExchange as the handler calls it
HandlerAddExchange(r, userText, botText) ==
    \E outcome \in WriteOutcomes :
        /\ outcome # "ok" => writeFailures < MaxWriteFailures
        /\ DoAddExchange(userText, botText, outcome)
        /\ added' = [added EXCEPT ![r] = Append(IF pc[r] = "gemini" THEN @ ELSE <<>>,
                                                 Added(userText, botText, outcome))]

\* faulty variant: the classifier is started before the message is validated
RejectAfterClassifier(r) ==
    /\ res' = [res EXCEPT ![r] =
                 [status |-> 400, body |-> [error |-> "Message is required."]]]
    /\ path' = [path EXCEPT ![r] = "invalid"]
    /\ pc' = [pc EXCEPT ![r] = "done"]
    /\ calls' = [calls EXCEPT ![r] = [NoCalls EXCEPT !.python = 1]]
    /\ added' = [added EXCEPT ![r] = <<>>]
    /\ UNCHANGED <<file, clock, appended, writeFailures>>

\* if (!message) return res.status(400).json(...)
Reject(r) ==
    /\ res' = [res EXCEPT ![r] =
                 [status |-> 400, body |-> [error |-> "Message is required."]]]
    /\ path' = [path EXCEPT ![r] = "invalid"]
    /\ pc' = [pc EXCEPT ![r] = "done"]
    /\ calls' = [calls EXCEPT ![r] = NoCalls]
    /\ added' = [added EXCEPT ![r] = <<>>]
    /\ UNCHANGED <<file, clock, appended, writeFailures>>

\* message.toLowerCase is not a function: the async handler rejects outside
\* its try blocks and no response is sent
Throw(r) ==
    /\ res' = [res EXCEPT ![r] = NoRes]
    /\ path' = [path EXCEPT ![r] = "threw"]
    /\ pc' = [pc EXCEPT ![r] = "threw"]
    /\ calls' = [calls EXCEPT ![r] = NoCalls]
    /\ added' = [added EXCEPT ![r] = <<>>]
    /\ UNCHANGED <<file, clock, appended, writeFailures>>

\* faulty variant: the crisis reply is stored and sent, but the handler does not
\* return and goes on to the classifier
CrisisReplyFallThrough(r, msg) ==
    /\ HandlerAddExchange(r, msg, crisisMsg)
    /\ res' = [res EXCEPT ![r] =
                 [status |-> 200, body |-> [response |-> crisisMsg, stressLevel |-> 3]]]
    /\ path' = [path EXCEPT ![r] = "crisis"]
    /\ pc' = [pc EXCEPT ![r] = "python"]
    /\ calls' = [calls EXCEPT ![r] = [NoCalls EXCEPT !.python = 1]]

\* The crisis branch: the safety message is stored and returned
CrisisReply(r, msg) ==
    /\ HandlerAddExchange(r, msg, crisisMsg)
    /\ res' = [res EXCEPT ![r] =
                 [status |-> 200, body |-> [response |-> crisisMsg, stressLevel |-> 3]]]
    /\ path' = [path EXCEPT ![r] = "crisis"]
    /\ pc' = [pc EXCEPT ![r] = "done"]
    /\ calls' = [calls EXCEPT ![r] = NoCalls]

\* await PythonShell.run(...): the classifier is started
StartClassifier(r) ==
    /\ res' = [res EXCEPT ![r] = NoRes]
    /\ path' = [path EXCEPT ![r] = "none"]
    /\ pc' = [pc EXCEPT ![r] = "python"]
    /\ calls' = [calls EXCEPT ![r] = [NoCalls EXCEPT !.python = 1]]
    /\ added' = [added EXCEPT ![r] = <<>>]
    /\ UNCHANGED <<file, clock, appended, writeFailures>>

\* The handler of slot r is not running
Free(r) == pc[r] \in {"idle", "done", "threw"}

\* A request arrives and the handler runs up to its first await: validation
\* and the crisis check, then the classifier is started. The request takes
\* the first free slot: which slot holds a request means nothing in the
\* program, where every request has its own invocation of the handler
Receive(r) ==
    /\ Free(r)
    /\ \A q \in 1..(r - 1) : ~Free(q)
    /\ served < MaxServed
    /\ served' = served + 1
    /\ reqId' = [reqId EXCEPT ![r] = served + 1]
    /\ \E msg \in Messages :
        /\ message' = [message EXCEPT ![r] = msg]
        /\ IF isFalsy(msg) THEN Reject(r)
           ELSE IF ~msg.string THEN Throw(r)
           ELSE IF crisisMatch[msg.text] THEN CrisisReply(r, msg.text)
           ELSE StartClassifier(r)
    /\ pyOut' = [pyOut EXCEPT ![r] = PyNotSettled]
    /\ emotion' = [emotion EXCEPT ![r] = "neutral"]
    /\ prompt' = [prompt EXCEPT ![r] = NoPrompt]
    /\ geminiOut' = [geminiOut EXCEPT ![r] = NotSettled]
    /\ UNCHANGED <<ctx, lastOp, client, escalation>>

\* PythonShell.run settles: the emotion is decided, the recent context is
\* read, the prompt is composed and generateContent is called
PythonReturns(r) ==
    /\ pc[r] = "python"
    /\ \E result \in PyResults :
        LET e == detectEmotion(result)
            contextSnippet == getImportantContext(file)
        IN  /\ pyOut' = [pyOut EXCEPT ![r] = result]
            /\ emotion' = [emotion EXCEPT ![r] = e]
            /\ prompt' = [prompt EXCEPT ![r] =
                            composePrompt(e, contextSnippet, message[r].text)]
    /\ calls' = [calls EXCEPT ![r].context = @ + 1, ![r].gemini = @ + 1]
    /\ pc' = [pc EXCEPT ![r] = "gemini"]
    /\ UNCHANGED <<memVars, reqId, message, geminiOut, res, path, added, served, client, escalation>>

\* faulty variant: a write that fails is reported to the client as an error
NormalReplyWriteErrorSurfaces(r, result) ==
    LET parsed == parsedResult[result]
    IN  /\ HandlerAddExchange(r, message[r].text, parsed.response)
        /\ res' = [res EXCEPT ![r] =
                     IF added'[r][1].outcome = "ok"
                     THEN [status |-> 200,
                           body |-> [response |-> parsed.response,
                                     stressLevel |-> parsed.stressLevel]]
                     ELSE [status |-> 500, body |-> [error |-> "Could not save."]]]
        /\ path' = [path EXCEPT ![r] = "normal"]

\* faulty variant: the raw output is stored, the parsed reply is sent
NormalReplyStoresRaw(r, result) ==
    LET parsed == parsedResult[result]
    IN  /\ HandlerAddExchange(r, message[r].text, result.text)
        /\ res' = [res EXCEPT ![r] =
                     [status |-> 200,
                      body |-> [response |-> parsed.response,
                                stressLevel |-> parsed.stressLevel]]]
        /\ path' = [path EXCEPT ![r] = "normal"]

\* The text is parsed, the exchange is stored and the reply is sent
NormalReply(r, result) ==
    LET parsed == parsedResult[result]
    IN  /\ HandlerAddExchange(r, message[r].text, parsed.response)
        /\ res' = [res EXCEPT ![r] =
                     [status |-> 200,
                      body |-> [response |-> parsed.response,
                                stressLevel |-> parsed.stressLevel]]]
        /\ path' = [path EXCEPT ![r] = "normal"]

\* faulty variant: the canned reply is sent with a default stress level
FallbackReplyWithLevel(r) ==
    /\ \E k \in 0..(RandSteps - 1) :
         res' = [res EXCEPT ![r] =
                   [status |-> 200,
                    body |-> [response |-> fallbackReply(greetingMatch[message[r].text], k),
                              stressLevel |-> 0]]]
    /\ path' = [path EXCEPT ![r] = "fallback"]
    /\ UNCHANGED <<file, clock, appended, writeFailures, added>>

\* faulty variant: the canned reply is stored like any other reply
FallbackReplyStored(r) ==
    /\ \E k \in 0..(RandSteps - 1) :
         LET reply == fallbackReply(greetingMatch[message[r].text], k)
         IN  /\ res' = [res EXCEPT ![r] = [status |-> 200, body |-> [response |-> reply]]]
             /\ HandlerAddExchange(r, message[r].text, reply)
    /\ path' = [path EXCEPT ![r] = "fallback"]

\* The catch branch: a canned reply is sent, nothing is stored
FallbackReply(r) ==
    /\ \E k \in 0..(RandSteps - 1) :
         res' = [res EXCEPT ![r] =
                   [status |-> 200,
                    body |-> [response |-> fallbackReply(greetingMatch[message[r].text], k)]]]
    /\ path' = [path EXCEPT ![r] = "fallback"]
    /\ UNCHANGED <<file, clock, appended, writeFailures, added>>

\* faulty variant: a failed generateContent call is made once more before
\* the canned reply is used
GeminiReturnsWithRetry(r, results) ==
    /\ pc[r] = "gemini"
    /\ \E result \in results :
        /\ geminiOut' = [geminiOut EXCEPT ![r] = result]
        /\ IF result.kind = "text"
           THEN NormalReply(r, result) /\ pc' = [pc EXCEPT ![r] = "done"] /\ UNCHANGED calls
           ELSE IF calls[r].gemini < 2
           THEN /\ calls' = [calls EXCEPT ![r].gemini = @ + 1]
                /\ UNCHANGED <<pc, res, path, file, clock, appended, writeFailures, added>>
           ELSE FallbackReply(r) /\ pc' = [pc EXCEPT ![r] = "done"] /\ UNCHANGED calls
    /\ pyOut' = [pyOut EXCEPT ![r] = PyNotSettled]
    /\ emotion' = [emotion EXCEPT ![r] = "neutral"]
    /\ prompt' = [prompt EXCEPT ![r] = NoPrompt]
    /\ UNCHANGED <<ctx, lastOp, reqId, message, served, client, escalation>>

\* generateContent settles with one of the given results
GeminiReturnsWith(r, results) ==
    /\ pc[r] = "gemini"
    /\ \E result \in results :
        /\ geminiOut' = [geminiOut EXCEPT ![r] = result]
        /\ IF result.kind = "text" THEN NormalReply(r, result) ELSE FallbackReply(r)
    /\ pc' = [pc EXCEPT ![r] = "done"]
    /\ pyOut' = [pyOut EXCEPT ![r] = PyNotSettled]
    /\ emotion' = [emotion EXCEPT ![r] = "neutral"]
    /\ prompt' = [prompt EXCEPT ![r] = NoPrompt]
    /\ UNCHANGED <<ctx, lastOp, reqId, message, calls, served, client, escalation>>

GeminiReturns(r) == GeminiReturnsWith(r, GeminiResults)

Next == \E r \in Requests : Receive(r) \/ PythonReturns(r) \/ GeminiReturns(r)

Spec == Init /\ [][Next]_vars

-----------------------------------------------------------------------------
(* The handler with its scheduling: a promise that settles has its         *)
(* continuation run by the event loop; the classifier process may also     *)
(* never exit, and nothing in the handler bounds the wait                  *)

\* await PythonShell.run(...) on a process that never exits: the promise
\* stays pending and the handler is never resumed
PythonHangs(r) ==
    /\ pc[r] = "python"
    /\ pc' = [pc EXCEPT ![r] = "hung"]
    /\ UNCHANGED <<memVars, reqId, message, pyOut, emotion, prompt, geminiOut, res,
                   path, calls, added, served, client, escalation>>

NextLive == Next \/ \E r \in Requests : PythonHangs(r)

SpecLive ==
    /\ Init
    /\ [][NextLive]_vars
    /\ \A r \in Requests : WF_vars(PythonReturns(r)) /\ WF_vars(GeminiReturns(r))

-----------------------------------------------------------------------------
(* The response parser on its own: one request awaits the generative       *)
(* service, which answers with any of the parser's inputs                  *)

ParseInit ==
    /\ file = Absent
    /\ clock = 1
    /\ appended = <<>>
    /\ writeFailures = 0
    /\ ctx = ""
    /\ lastOp = "none"
    /\ \E t \in {"Hello", "so tired"}, e \in {"neutral", "sadness"} :
        /\ pc = [r \in Requests |-> IF r = 1 THEN "gemini" ELSE "idle"]
        /\ reqId = [r \in Requests |-> IF r = 1 THEN 1 ELSE 0]
        /\ message = [r \in Requests |-> IF r = 1 THEN Text(t) ELSE Missing]
        /\ pyOut = [r \in Requests |->
                      IF r = 1 THEN [throws |-> FALSE, lines |-> <<PyLine("object", e)>>]
                      ELSE PyNotSettled]
        /\ emotion = [r \in Requests |-> IF r = 1 THEN e ELSE "neutral"]
        /\ prompt = [r \in Requests |-> IF r = 1 THEN composePrompt(e, "", t) ELSE NoPrompt]
        /\ calls = [r \in Requests |->
                      IF r = 1 THEN [python |-> 1, gemini |-> 1, context |-> 1] ELSE NoCalls]
    /\ geminiOut = [r \in Requests |-> NotSettled]
    /\ res = [r \in Requests |-> NoRes]
    /\ path = [r \in Requests |-> "none"]
    /\ added = [r \in Requests |-> <<>>]
    /\ served = 1
    /\ client = ClientInit
    /\ escalation = EscalationInit

ParseNext == GeminiReturnsWith(1, ParserResults \cup {GeminiError})

SpecParse == ParseInit /\ [][ParseNext]_vars

-----------------------------------------------------------------------------
(* The memory on its own: any sequence of addExchange and                  *)
(* getImportantContext calls                                               *)

MemUsers == {"a", "b"}
MemBots == {"x"}

MemInit ==
    /\ file \in {Absent, Garbage, NonList, ListFile(<<>>)}
    /\ clock = 1
    /\ appended = <<>>
    /\ writeFailures = 0
    /\ ctx = ""
    /\ lastOp = "none"
    /\ NoRequests

MemAddExchange ==
    /\ clock <= MaxAppends
    /\ \E u \in MemUsers, b \in MemBots, outcome \in WriteOutcomes :
          /\ outcome # "ok" => writeFailures < MaxWriteFailures
          /\ DoAddExchange(u, b, outcome)
    /\ lastOp' = "add"
    /\ ctx' = ""
    /\ UNCHANGED <<reqVars, client, escalation>>

MemGetImportantContext ==
    /\ ctx' = getImportantContext(file)
    /\ lastOp' = "get"
    /\ UNCHANGED <<file, clock, appended, writeFailures, reqVars, client, escalation>>

MemNext == MemAddExchange \/ MemGetImportantContext

SpecMem == MemInit /\ [][MemNext]_vars

-----------------------------------------------------------------------------
(* The chat page on its own: what the user can do, the timers and the      *)
(* responses of the server                                                 *)

TypedTexts == {" ", "hi"}
ClickedReplies == {quickReplies[1]}

\* onChange of the TextField, which is disabled while loading
Type ==
    /\ ~client.loading
    /\ \E text \in TypedTexts :
         /\ text # client.input
         /\ client' = [client EXCEPT !.input = text]
    /\ UNCHANGED <<memVars, reqVars, escalation>>

\* onClick of the send button, disabled while loading or on a blank input
ClickSend ==
    /\ ~client.loading
    /\ trim(client.input) # ""
    /\ client.sent < MaxSends
    /\ client' = sendMessage(client, client.input)
    /\ UNCHANGED <<memVars, reqVars, escalation>>

\* handleKeyDown for Enter in the TextField, which is disabled while loading
PressEnter ==
    /\ ~client.loading
    /\ client.sent < MaxSends
    /\ client' = sendMessage(client, client.input)
    /\ UNCHANGED <<memVars, reqVars, escalation>>

\* handleQuickReply: the buttons are never disabled; the timer's callback
\* calls the sendMessage of the render in which the button was clicked
ClickQuickReply ==
    /\ Len(client.timers) < MaxTimers
    /\ \E reply \in ClickedReplies :
         client' = [client EXCEPT !.input = reply,
                                  !.timers = Append(@, client.input)]
    /\ UNCHANGED <<memVars, reqVars, escalation>>

\* The oldest timer fires, 100 ms after its click
TimerFires ==
    /\ client.timers # <<>>
    /\ trim(Head(client.timers)) # "" => client.sent < MaxSends
    /\ client' = [sendMessage(client, Head(client.timers))
                     EXCEPT !.timers = Tail(client.timers)]
    /\ UNCHANGED <<memVars, reqVars, escalation>>

\* An outstanding fetch settles and its sendMessage runs to its end
ResponseArrives ==
    /\ \E i \in 1..Len(client.inFlight), result \in FetchResults :
         client' = receiveResponse(client, i, result)
    /\ UNCHANGED <<memVars, reqVars, escalation>>

ClientNext ==
    Type \/ ClickSend \/ PressEnter \/ ClickQuickReply \/ TimerFires \/ ResponseArrives

SpecClient == Init /\ [][ClientNext]_vars

\* The chat page of frontend/src/App.js: the same handlers and controls,
\* with its own end of sendMessage
ResponseArrivesAppJs ==
    /\ \E i \in 1..Len(client.inFlight), result \in FetchResults :
         client' = receiveResponseAppJs(client, i, result)
    /\ UNCHANGED <<memVars, reqVars, escalation>>

ClientNextAppJs ==
    Type \/ ClickSend \/ PressEnter \/ ClickQuickReply \/ TimerFires \/ ResponseArrivesAppJs

SpecClientAppJs == Init /\ [][ClientNextAppJs]_vars

-----------------------------------------------------------------------------
(* The escalation state machine on its own: turns of one session *)

EscalationTexts == {"hi", "I want to die", "Death is near"}
EscalationReplies == {[response |-> "ok", stressLevel |-> l] : l \in 0..3}
                         \cup {[response |-> "ok"]}

\* The user sends a message; one request is outstanding at a time
EscalationSend ==
    /\ ~escalation.waiting
    /\ Len(escalation.sentTexts) < MaxTurns
    /\ \E text \in EscalationTexts : escalation' = escalateOnSend(escalation, text)
    /\ UNCHANGED <<memVars, reqVars, client>>

\* The response of the turn arrives, with or without a level
EscalationReceive ==
    /\ escalation.waiting
    /\ \E reply \in EscalationReplies : escalation' = escalateOnResponse(escalation, reply)
    /\ UNCHANGED <<memVars, reqVars, client>>

EscalationNext == EscalationSend \/ EscalationReceive

SpecEscalation == Init /\ [][EscalationNext]_vars

-----------------------------------------------------------------------------
(* Properties of the memory *)

Min(a, b) == IF a < b THEN a ELSE b

\* The text one exchange contributes to the context
UserBotLines(e) == "User: " \o e.user \o "\n" \o "Bot: " \o e.bot

\* C3: the persisted store never holds more than MAX_ITEMS = 10 exchanges
C3_StoreAtMostTen ==
    file.kind = "list" => Len(file.items) <= 10

C3_Witness ==
    /\ file.kind = "list"
    /\ Len(file.items) = 10
    /\ Len(appended) > 10

\* C4: after n successful appends the store is the last min(n, 10) appended
\* exchanges in insertion order; after 11 appends it holds 10 exchanges and
\* the first appended one is gone
C4_StoreIsLastTenAppended ==
    writeFailures = 0 =>
        LET n == Len(appended)
            k == Min(n, 10)
        IN  /\ n = 0 => (file.kind # "list" \/ file.items = <<>>)
            /\ n > 0 =>
                 /\ file.kind = "list"
                 /\ Len(file.items) = k
                 /\ \A i \in 1..k : file.items[i] = appended[n - k + i]
                 /\ n = 11 => \A i \in 1..k : file.items[i] # appended[1]

C4_Witness ==
    /\ writeFailures = 0
    /\ Len(appended) = 11
    /\ file.kind = "list"
    /\ Len(file.items) = 10

\* C5: with three or more exchanges stored, getImportantContext returns the
\* three most recently appended ones, oldest first, each as a "User: ..."
\* line followed by a "Bot: ..." line
C5_ContextIsLastThree ==
    (lastOp = "get" /\ writeFailures = 0 /\ Len(appended) >= 3) =>
        LET n == Len(appended)
        IN  ctx = UserBotLines(appended[n - 2]) \o "\n"
                  \o UserBotLines(appended[n - 1]) \o "\n"
                  \o UserBotLines(appended[n])

C5_Witness ==
    /\ lastOp = "get"
    /\ writeFailures = 0
    /\ Len(appended) = 5
    /\ ctx = UserBotLines(appended[3]) \o "\n" \o UserBotLines(appended[4])
             \o "\n" \o UserBotLines(appended[5])

\* C6 as claimed: with fewer than three exchanges stored, getImportantContext
\* returns nothing (so that the prompt shows "(no recent context)")
C6_Original_NoPartialContext ==
    (lastOp = "get" /\ Len(readMemory(file)) < 3) => ctx = ""

\* C6 amended: with fewer than three exchanges stored, getImportantContext
\* returns the lines of every exchange that is stored, oldest first; it
\* returns the empty string exactly when no exchange is stored
C6_PartialContext ==
    (lastOp = "get" /\ writeFailures = 0 /\ Len(appended) < 3) =>
        /\ Len(appended) = 0 => ctx = ""
        /\ Len(appended) = 1 => ctx = UserBotLines(appended[1])
        /\ Len(appended) = 2 =>
             ctx = UserBotLines(appended[1]) \o "\n" \o UserBotLines(appended[2])

C6_Witness ==
    /\ lastOp = "get"
    /\ writeFailures = 0
    /\ Len(appended) = 2
    /\ ctx # ""

-----------------------------------------------------------------------------
(* Properties of the handler *)

\* phrase (in lower case) occurs somewhere in text, letter case ignored
OccursIgnoringCase(text, phrase) ==
    \E i \in 1..Len(text) : \E j \in i..Len(text) :
        toLowerCase(SubSeq(text, i, j)) = phrase

CrisisPhrases == {"suicide", "kill myself", "end my life", "self-harm", "hurt myself",
                  "take my life", "i want to die", "i want die", "cut myself"}
GreetingWords == {"hi", "hello", "hey", "good morning", "good afternoon",
                  "good evening", "sup", "yo"}

HasCrisisPhrase == [t \in MessageTexts |-> \E k \in CrisisPhrases : OccursIgnoringCase(t, k)]
HasGreetingWord == [t \in MessageTexts |-> \E k \in GreetingWords : OccursIgnoringCase(t, k)]

HelplinePhone == "9152987821"
HasField(body, f) == f \in DOMAIN body
Range(seq) == {seq[i] : i \in 1..Len(seq)}

Answered(r) == pc[r] = "done" /\ reqId[r] > 0

\* C1: a request whose message contains a crisis keyword, in any letter case
\* and anywhere in the text, is answered with the helpline phone number and
\* stressLevel 3, and the generative service is not called for it
C1_CrisisGetsHelpline ==
    \A r \in Requests :
        (reqId[r] > 0 /\ message[r].present /\ HasCrisisPhrase[message[r].text]) =>
            /\ pc[r] = "done"
            /\ res[r].status = 200
            /\ HasField(res[r].body, "response")
            /\ includes(res[r].body.response, HelplinePhone)
            /\ HasField(res[r].body, "stressLevel")
            /\ res[r].body.stressLevel = 3
            /\ calls[r].gemini = 0
            /\ geminiOut[r] = NotSettled

C1_Witness ==
    \E r \in Requests :
        /\ Answered(r)
        /\ message[r] = Text("I want to DIE")
        /\ res[r].status = 200
        /\ res[r].body.stressLevel = 3
        /\ Len(appended) > 1

\* C2: on a crisis match the handler makes exactly one addExchange call, with
\* the user message and the fixed safety message, and stops: the classifier
\* is not invoked, the recent context is not read, no second exchange is
\* written; the call adds that one exchange at the tail of the store
C2_CrisisStopsPipeline ==
    /\ [](\A r \in Requests :
            path[r] = "crisis" =>
                /\ pc[r] = "done"
                /\ calls[r] = [python |-> 0, gemini |-> 0, context |-> 0]
                /\ Len(added[r]) = 1
                /\ added[r][1].user = message[r].text
                /\ added[r][1].bot = crisisMsg)
    /\ [][\A r \in Requests :
            (reqId'[r] # reqId[r] /\ path'[r] = "crisis" /\ added'[r][1].outcome = "ok") =>
                /\ file'.kind = "list"
                /\ file'.items # <<>>
                /\ Len(file'.items) = Min(Len(readMemory(file)) + 1, 10)
                /\ LET last == file'.items[Len(file'.items)]
                   IN  last.user = message'[r].text /\ last.bot = crisisMsg
                /\ \A i \in 1..(Len(file'.items) - 1) :
                     file'.items[i] = readMemory(file)[Len(readMemory(file)) - Len(file'.items) + 1 + i]
         ]_vars

C2_Witness ==
    \E r \in Requests :
        /\ path[r] = "crisis"
        /\ added[r][1].outcome = "ok"
        /\ file.kind = "list"
        /\ Len(file.items) > 1
        /\ file.items[Len(file.items)].bot = crisisMsg

\* The descriptor: what follows the first sentinel, in lower case
AfterFirst(text, mark) ==
    LET i == indexOf(text, mark)
    IN  IF i = 0 THEN "" ELSE SubSeq(text, i + Len(mark), Len(text))
Descriptor(text) == toLowerCase(AfterFirst(text, "StressLevel:"))

ParsedNormally(r) == Answered(r) /\ geminiOut[r].kind = "text"

\* C7: the level is decided by substring checks on the descriptor in this
\* order: "very high" gives 3, else "high" gives 2, else "mid" gives 1,
\* else 0; a descriptor containing "very high" never gives 2
C7_LevelByPriority ==
    \A r \in Requests :
        ParsedNormally(r) =>
            LET d == Descriptor(geminiOut[r].text)
                level == res[r].body.stressLevel
            IN  /\ includes(d, "very high") => level = 3
                /\ (includes(d, "high") /\ ~includes(d, "very high")) => level = 2
                /\ (includes(d, "mid") /\ ~includes(d, "high")) => level = 1
                /\ (~includes(d, "mid") /\ ~includes(d, "high")) => level = 0

C7_Witness ==
    \E r \in Requests :
        /\ ParsedNormally(r)
        /\ geminiOut[r].text = " Rest a bit. StressLevel: mid to very high"
        /\ res[r].body.stressLevel = 3

\* C8: an output without the sentinel is returned whole, trimmed, with
\* stressLevel 0, in a success response of the normal path
C8_NoSentinelPassthrough ==
    \A r \in Requests :
        (Answered(r) /\ geminiOut[r].kind = "text"
                     /\ indexOf(geminiOut[r].text, "StressLevel:") = 0) =>
            /\ path[r] = "normal"
            /\ res[r].status = 200
            /\ res[r].body.response = trim(geminiOut[r].text)
            /\ HasField(res[r].body, "stressLevel")
            /\ res[r].body.stressLevel = 0
            /\ Len(added[r]) = 1

C8_Witness ==
    \E r \in Requests :
        /\ Answered(r)
        /\ geminiOut[r] = GeminiText("Stress is high.\n")
        /\ path[r] = "normal"
        /\ res[r].status = 200
        /\ res[r].body = [response |-> "Stress is high.", stressLevel |-> 0]

\* C9: when the generative call fails the request is answered with status
\* 200 and a non-empty reply from the pools: from GREETING_RESPONSES only if
\* the message contains a greeting word, from DEMO_REPLIES only otherwise
C9_FallbackFromPools ==
    \A r \in Requests :
        (Answered(r) /\ geminiOut[r].kind = "error") =>
            /\ res[r].status = 200
            /\ HasField(res[r].body, "response")
            /\ res[r].body.response # ""
            /\ IF HasGreetingWord[message[r].text]
               THEN /\ res[r].body.response \in Range(GREETING_RESPONSES)
                    /\ res[r].body.response \notin Range(DEMO_REPLIES)
               ELSE /\ res[r].body.response \in Range(DEMO_REPLIES)
                    /\ res[r].body.response \notin Range(GREETING_RESPONSES)

C9_Witness ==
    \E r, q \in Requests :
        /\ Answered(r) /\ geminiOut[r].kind = "error"
        /\ message[r] = Text("Hello")
        /\ res[r].body.response \in Range(GREETING_RESPONSES)
        /\ Answered(q) /\ geminiOut[q].kind = "error"
        /\ message[q] = Text("so tired")
        /\ res[q].body.response \in Range(DEMO_REPLIES)

\* C10: in a success response stressLevel, when present, is one of 0..3; it
\* is present on the crisis and normal paths and absent exactly on the
\* fallback path
C10_StressLevelField ==
    \A r \in Requests :
        res[r].status = 200 =>
            /\ path[r] \in {"crisis", "normal", "fallback"}
            /\ HasField(res[r].body, "stressLevel") <=> path[r] # "fallback"
            /\ path[r] = "fallback" <=> geminiOut[r].kind = "error"
            /\ HasField(res[r].body, "stressLevel") => res[r].body.stressLevel \in 0..3

C10_Witness ==
    \E r, q \in Requests :
        /\ res[r].status = 200 /\ path[r] = "fallback"
        /\ ~HasField(res[r].body, "stressLevel")
        /\ res[q].status = 200 /\ path[q] = "normal"
        /\ res[q].body.stressLevel = 3

\* C11: a request with a missing (or empty) message is answered with status
\* 400 and an {error} body; it calls neither the classifier nor the
\* generative service, reads no context, makes no addExchange call, and the
\* step that handles it leaves the stored document as it was
C11_InvalidHasNoEffects ==
    /\ [](\A r \in Requests :
            (reqId[r] > 0 /\ isFalsy(message[r])) =>
                /\ pc[r] = "done"
                /\ res[r].status = 400
                /\ DOMAIN res[r].body = {"error"}
                /\ res[r].body.error # ""
                /\ calls[r] = [python |-> 0, gemini |-> 0, context |-> 0]
                /\ added[r] = <<>>
                /\ geminiOut[r] = NotSettled)
    /\ [][\A r \in Requests :
            (reqId'[r] # reqId[r] /\ isFalsy(message'[r])) =>
                /\ file' = file
                /\ appended' = appended
                /\ clock' = clock
                /\ writeFailures' = writeFailures
         ]_vars

C11_Witness ==
    \E r \in Requests :
        /\ reqId[r] > 1
        /\ message[r] = Missing
        /\ res[r].status = 400
        /\ file.kind = "list"
        /\ Len(file.items) > 0

\* C12: every request whose message passes the validation has, once the
\* handler has run to its end, a success response with a reply text
C12_ValidatedIsAnswered ==
    \A r \in Requests :
        (reqId[r] > 0 /\ ~isFalsy(message[r]) /\ pc[r] \notin {"python", "gemini"}) =>
            /\ res[r].status = 200
            /\ HasField(res[r].body, "response")

\* The classifier failed: the process threw, printed nothing, or its last
\* line is not an object with a top_emotion
ClassifierFailed(result) ==
    \/ result.throws
    \/ result.lines = <<>>
    \/ LET last == result.lines[Len(result.lines)]
       IN  last.json # "object" \/ last.top_emotion = ""

DefaultInstruction == "Respond with a supportive, friendly tone."

\* C13: after any failure of the classifier the label is 'neutral', the
\* prompt carries the default instruction and the generative call has been
\* made, with no response sent yet; when that call then returns a text the
\* request is answered on the normal path with status 200, so a fallback
\* reply only follows a failure of the generative call
C13_ClassifierFailureIsNeutral ==
    /\ [](\A r \in Requests :
            (pc[r] = "gemini" /\ ClassifierFailed(pyOut[r])) =>
                /\ emotion[r] = "neutral"
                /\ prompt[r].instruction = DefaultInstruction
                /\ prompt[r].message = message[r].text
                /\ calls[r].gemini = 1
                /\ res[r] = NoRes
                /\ path[r] = "none")
    /\ [][\A r \in Requests :
            (pc[r] = "gemini" /\ pc'[r] = "done" /\ ClassifierFailed(pyOut[r])) =>
                /\ res'[r].status = 200
                /\ HasField(res'[r].body, "response")
                /\ geminiOut'[r].kind = "text" => path'[r] = "normal"
                /\ path'[r] = "fallback" => geminiOut'[r].kind = "error"
         ]_vars

C13_Witness ==
    \E r, q \in Requests :
        /\ pc[r] = "gemini"
        /\ pyOut[r].lines = <<PyLine("object", "sadness"), PyLine("invalid", "")>>
        /\ emotion[r] = "neutral"
        /\ calls[r].gemini = 1
        /\ pc[q] = "gemini"
        /\ pyOut[q].throws

\* C15: a request calls the generative service at most once; when the call
\* fails, that same step ends the request with a reply of the fallback
\* responder and no further call is made
C15_SingleAttempt ==
    /\ [](\A r \in Requests :
            /\ calls[r].gemini <= 1
            /\ geminiOut[r].kind = "error" =>
                 /\ pc[r] = "done"
                 /\ path[r] = "fallback"
                 /\ calls[r].gemini = 1
                 /\ res[r].body.response \in Range(DEMO_REPLIES) \cup Range(GREETING_RESPONSES))
    /\ [][\A r \in Requests :
            (pc[r] = "gemini" /\ geminiOut'[r].kind = "error") =>
                /\ pc'[r] = "done"
                /\ path'[r] = "fallback"
                /\ calls'[r] = calls[r]
         ]_vars

C15_Witness ==
    \E r \in Requests :
        /\ Answered(r)
        /\ geminiOut[r] = GeminiError
        /\ calls[r].gemini = 1
        /\ path[r] = "fallback"
        /\ res[r].status = 200

\* The step in which request r is answered
Answers(r) == pc'[r] = "done" /\ (pc[r] # "done" \/ reqId'[r] # reqId[r])

\* C16 as stated: every success response, the fallback one included, comes
\* with exactly one addExchange call of its request
C16_Original_EverySuccessAppends ==
    \A r \in Requests : res[r].status = 200 => Len(added[r]) = 1

\* C16: a success response of the crisis or the normal path comes with
\* exactly one addExchange call, for the user message and the reply sent,
\* and unless the write fails that exchange is appended at the tail of the
\* store; a success response of the fallback path comes with no addExchange
\* call and leaves the store as it was
C16_TurnStoredUnlessFallback ==
    /\ [](\A r \in Requests :
            res[r].status = 200 =>
                IF path[r] = "fallback"
                THEN added[r] = <<>>
                ELSE /\ path[r] \in {"crisis", "normal"}
                     /\ Len(added[r]) = 1
                     /\ added[r][1].user = message[r].text
                     /\ added[r][1].bot = res[r].body.response)
    /\ [][\A r \in Requests :
            (Answers(r) /\ res'[r].status = 200) =>
                IF path'[r] = "fallback"
                THEN /\ file' = file
                     /\ appended' = appended
                     /\ clock' = clock
                     /\ writeFailures' = writeFailures
                ELSE /\ clock' = clock + 1
                     /\ added'[r][1].outcome = "ok" =>
                          LET e == Exchange(message'[r].text, res'[r].body.response, clock)
                          IN  /\ appended' = Append(appended, e)
                              /\ file'.kind = "list"
                              /\ file'.items # <<>>
                              /\ file'.items[Len(file'.items)] = e
         ]_vars

C16_Witness ==
    \E r, q \in Requests :
        /\ Answered(r) /\ path[r] = "fallback" /\ res[r].status = 200
        /\ added[r] = <<>>
        /\ Answered(q) /\ path[q] = "normal" /\ res[q].status = 200
        /\ Len(added[q]) = 1 /\ added[q][1].outcome = "ok"
        /\ file.kind = "list"
        /\ Len(file.items) = 1
        /\ file.items[1].bot = res[q].body.response

\* The step in which request r makes an addExchange call whose write fails
WriteFails(r) == Answers(r) /\ writeFailures' > writeFailures

\* C17 as stated: when the write fails the request is answered with its
\* success response, the stored document is left as it was, and the write
\* is attempted once
C17_Original_DocumentUntouched ==
    [][\A r \in Requests :
         WriteFails(r) =>
             /\ res'[r].status = 200
             /\ file' = file
             /\ clock' = clock + 1
      ]_vars

\* C17: when the write fails the request is answered with status 200, the
\* reply it tried to store and a stressLevel; the write is attempted once;
\* the stored document is left as it was or, when the write failed after the
\* file was opened, left as content that reads as the empty list; and two
\* answered requests with the same message, on the same path with the same
\* output of the generative service, have the same response whatever their
\* writes did
C17_WriteFailureSwallowed ==
    /\ [][\A r \in Requests :
            WriteFails(r) =>
                /\ res'[r].status = 200
                /\ path'[r] \in {"crisis", "normal"}
                /\ Len(added'[r]) = 1
                /\ added'[r][1].bot = res'[r].body.response
                /\ HasField(res'[r].body, "stressLevel")
                /\ clock' = clock + 1
                /\ writeFailures' = writeFailures + 1
                /\ appended' = appended
                /\ file' = file \/ (file'.kind # "list" /\ readMemory(file') = <<>>)
         ]_vars
    /\ [](\A r, q \in Requests :
            (Answered(r) /\ Answered(q) /\ message[r] = message[q]
                /\ path[r] = path[q] /\ path[r] \in {"crisis", "normal"}
                /\ geminiOut[r] = geminiOut[q]) =>
                res[r] = res[q])

C17_Witness ==
    \E r, q \in Requests :
        /\ Answered(r) /\ Answered(q) /\ r # q
        /\ path[r] = "normal" /\ path[q] = "normal"
        /\ message[r] = message[q]
        /\ geminiOut[r] = geminiOut[q]
        /\ added[r][1].outcome = "ok"
        /\ added[q][1].outcome = "partial"
        /\ res[q].status = 200
        /\ res[q].body.stressLevel = 3
        /\ file = Garbage

-----------------------------------------------------------------------------
(* Properties of the memory: reads that fail, writes that replace *)

\* The document can be read as a list
Readable(f) == f.kind = "list"

\* An addExchange call whose write completes
AddSucceeds == clock' = clock + 1 /\ writeFailures' = writeFailures

\* C18: a document that is absent, unreadable or not a list reads as the
\* empty list (the context built from it is empty); every completed write
\* replaces the whole document with a list of at most 10 records, the old
\* list read plus the new exchange, cut at the head; so an append after a
\* failed read leaves a document holding the new exchange alone
C18_ReadFailureIsEmptyWriteReplaces ==
    /\ []((lastOp = "get" /\ ~Readable(file)) => ctx = "")
    /\ [][AddSucceeds =>
            /\ Readable(file')
            /\ Len(file'.items) \in 1..10
            /\ file'.items[Len(file'.items)].ts = clock
            /\ IF Readable(file)
               THEN LET all == file.items \o <<file'.items[Len(file'.items)]>>
                    IN  file'.items = SubSeq(all, Len(all) - Min(Len(all), 10) + 1, Len(all))
               ELSE Len(file'.items) = 1
         ]_vars

C18_Witness ==
    /\ lastOp = "add"
    /\ writeFailures = 1
    /\ Len(appended) > 2
    /\ Readable(file)
    /\ Len(file.items) = 1
    /\ file.items[1] = appended[Len(appended)]

-----------------------------------------------------------------------------
(* Properties of the handler under its scheduling *)

\* C14: a request that waits for the classifier, also for one that never
\* returns, is eventually answered with a success response
C14_ClassifierBoundedTime ==
    \A r \in Requests :
        (pc[r] \in {"python", "hung"}) ~> (pc[r] = "done" /\ res[r].status = 200)

\* Request r completed an addExchange call whose write succeeded
Completed(r) == Answered(r) /\ Len(added[r]) = 1 /\ added[r][1].outcome = "ok"

\* The exchange of request r is the i-th record of the stored document
StoredAt(r, i) ==
    /\ i \in 1..Len(readMemory(file))
    /\ readMemory(file)[i].user = added[r][1].user
    /\ readMemory(file)[i].bot = added[r][1].bot

\* Two requests completed addExchange, no write ever failed, nothing was
\* evicted, and the document does not hold an exchange for each of them
LostUpdate ==
    \E r, q \in Requests :
        /\ r # q
        /\ Completed(r) /\ Completed(q)
        /\ writeFailures = 0
        /\ Len(appended) <= MAX_ITEMS
        /\ ~ \E i, j \in 1..Len(readMemory(file)) :
               i # j /\ StoredAt(r, i) /\ StoredAt(q, j)

\* Request r arrived before request q and made its addExchange call after
\* q's: q ran, from its arrival to its answer, while r was waiting
Overlapped(r, q) ==
    /\ r # q
    /\ Completed(r) /\ Completed(q)
    /\ reqId[r] < reqId[q]
    /\ <<added[r][1].user, added[r][1].bot>> # <<added[q][1].user, added[q][1].bot>>
    /\ \E i, j \in 1..Len(appended) :
          /\ i < j
          /\ appended[i].user = added[q][1].user /\ appended[i].bot = added[q][1].bot
          /\ appended[j].user = added[r][1].user /\ appended[j].bot = added[r][1].bot

\* C19 as stated: when two requests overlapped and both completed
\* addExchange, with no failed write and no eviction, the interleaving of
\* their read-modify-write has left only one of their exchanges in the store
C19_Original_UpdateLost ==
    \A r, q \in Requests :
        (Overlapped(r, q) /\ writeFailures = 0 /\ Len(appended) <= MAX_ITEMS) =>
            ~ \E i, j \in 1..Len(readMemory(file)) :
                 i # j /\ StoredAt(r, i) /\ StoredAt(q, j)

\* C19: no update is lost: as long as no write failed and no more than 10
\* exchanges were appended, the document is exactly the exchanges appended,
\* in the order of their addExchange calls, also when the requests
\* overlapped and completed in another order than they arrived
C19_NoLostUpdate ==
    /\ (writeFailures = 0 /\ Len(appended) <= MAX_ITEMS) => readMemory(file) = appended
    /\ ~LostUpdate

C19_Witness ==
    \E r, q \in Requests :
        /\ Overlapped(r, q)
        /\ path[r] = "normal" /\ path[q] = "normal"
        /\ writeFailures = 0
        /\ Len(readMemory(file)) = 2
        /\ StoredAt(q, 1) /\ ~StoredAt(r, 1)
        /\ StoredAt(r, 2)

-----------------------------------------------------------------------------
(* Properties of the chat page *)

\* C20: the chat page has at most one request outstanding at any time
C20_OneRequestInFlight == Len(client.inFlight) <= 1

-----------------------------------------------------------------------------
(* Properties of the response parser: the reply body and the reminder *)

\* The text before the first occurrence of mark (the whole text if none)
BeforeFirst(text, mark) ==
    LET i == indexOf(text, mark)
    IN  IF i = 0 THEN text ELSE SubSeq(text, 1, i - 1)

HelplineReminder ==
    "\n\nIf you feel overwhelmed, consider calling 9152987821 or visiting https://manastha.com/ for professional support."

\* C25: at level 3 the reply sent is the trimmed reply body followed by the
\* fixed reminder, which names the helpline phone and website; at levels 0,
\* 1 and 2 it is the trimmed reply body with nothing after it
C25_ReminderAtLevelThreeOnly ==
    \A r \in Requests :
        ParsedNormally(r) =>
            LET body == trim(BeforeFirst(geminiOut[r].text, "StressLevel:"))
                level == res[r].body.stressLevel
            IN  /\ level \in 0..3
                /\ level = 3 => res[r].body.response = body \o HelplineReminder
                /\ level # 3 => res[r].body.response = body
                /\ added[r][1].bot = res[r].body.response

C25_Witness ==
    \E r \in Requests :
        /\ ParsedNormally(r)
        /\ geminiOut[r].text = " Rest a bit. StressLevel: VERY HIGH\n"
        /\ res[r].body.stressLevel = 3
        /\ res[r].body.response = "Rest a bit." \o HelplineReminder

\* C26: the output is cut at the first sentinel: the reply sent starts with
\* the trimmed text before the first sentinel and holds no text from after
\* it, and the level is decided by everything after the first sentinel,
\* later sentinels and their text included
C26_SplitAtFirstSentinel ==
    \A r \in Requests :
        (ParsedNormally(r) /\ indexOf(geminiOut[r].text, "StressLevel:") > 0) =>
            LET body == trim(BeforeFirst(geminiOut[r].text, "StressLevel:"))
                d == Descriptor(geminiOut[r].text)
                level == res[r].body.stressLevel
            IN  /\ SubSeq(res[r].body.response, 1, Len(body)) = body
                /\ ~includes(res[r].body.response, "StressLevel:")
                /\ level = 3 <=> includes(d, "very high")
                /\ level = 0 <=> (~includes(d, "high") /\ ~includes(d, "mid"))

C26_Witness ==
    \E r \in Requests :
        /\ ParsedNormally(r)
        /\ geminiOut[r].text = " Rest a bit. StressLevel: low\nStressLevel: very high"
        /\ res[r].body.stressLevel = 3
        /\ res[r].body.response = "Rest a bit." \o HelplineReminder

-----------------------------------------------------------------------------
(* Properties of the handler: what is stored is what is sent *)

InProgress(r) == pc[r] \in {"python", "gemini"}

\* C27: a request still in progress has sent no response and stored nothing;
\* in the step that sends a crisis or a normal response whose write
\* succeeded, the last exchange of the store is the request's message with
\* the response text sent, whatever other requests are in progress, and the
\* responses and stored exchanges of the other requests are left alone
C27_StoredTextIsSentText ==
    /\ [](\A r \in Requests : InProgress(r) => (res[r] = NoRes /\ added[r] = <<>>))
    /\ [][\A r \in Requests :
            (/\ Answers(r)
             /\ path'[r] \in {"crisis", "normal"}
             /\ added'[r][1].outcome = "ok") =>
                LET items == readMemory(file')
                IN  /\ items # <<>>
                    /\ items[Len(items)].user = message'[r].text
                    /\ items[Len(items)].bot = res'[r].body.response
                    /\ res'[r].status = 200
                    /\ \A q \in Requests \ {r} :
                         /\ res'[q] = res[q]
                         /\ added'[q] = added[q]
                         /\ pc'[q] = pc[q]
         ]_vars

C27_Witness ==
    \E r, q \in Requests :
        /\ Answered(r) /\ path[r] = "normal"
        /\ added[r][1].outcome = "ok"
        /\ res[r].body.stressLevel = 3
        /\ InProgress(q) /\ pc[q] = "gemini"
        /\ file.kind = "list"
        /\ file.items[Len(file.items)].user = message[r].text
        /\ file.items[Len(file.items)].bot = res[r].body.response
        /\ file.items[Len(file.items)].bot # geminiOut[r].text

\* C28: a success response that reports stress level 3 names the helpline
\* phone number in its text, whether the crisis branch or the parser made it
C28_LevelThreeNamesHelpline ==
    \A r \in Requests :
        (/\ res[r].status = 200
         /\ HasField(res[r].body, "stressLevel")
         /\ res[r].body.stressLevel = 3) =>
            /\ path[r] \in {"crisis", "normal"}
            /\ includes(res[r].body.response, HelplinePhone)

C28_Witness ==
    \E r, q \in Requests :
        /\ Answered(r) /\ path[r] = "crisis" /\ res[r].body.stressLevel = 3
        /\ Answered(q) /\ path[q] = "normal" /\ res[q].body.stressLevel = 3
        /\ includes(res[r].body.response, HelplinePhone)
        /\ includes(res[q].body.response, HelplinePhone)

-----------------------------------------------------------------------------
(* Properties of the handler: whose exchanges the prompt shows *)

\* The lines of the exchanges es, oldest first
ContextLines(es) ==
    CASE Len(es) = 0 -> ""
      [] Len(es) = 1 -> UserBotLines(es[1])
      [] Len(es) = 2 -> UserBotLines(es[1]) \o "\n" \o UserBotLines(es[2])
      [] OTHER -> UserBotLines(es[1]) \o "\n" \o UserBotLines(es[2])
                  \o "\n" \o UserBotLines(es[3])

\* C29 as stated, for the first request the server ever receives and a
\* request q that arrives and is answered while the first is in progress,
\* which is another client's (the first client awaits its answer): the
\* first client has no exchange yet, and its prompt does not show the
\* message of q
C29_Original_ContextOfOwnSession ==
    \A r, q \in Requests :
        (r # q /\ pc[r] = "gemini" /\ reqId[r] = 1 /\ Completed(q)) =>
            ~includes(prompt[r].context, "User: " \o message[q].text)

\* C29: the recent context is that of the whole server process: when the
\* classifier returns, the prompt of the request shows the last three
\* exchanges of the one store ("(no recent context)" if it holds none),
\* whichever request stored them; the exchange another request stored last
\* is among them
C29_ContextIsProcessWide ==
    [][\A r \in Requests :
         (pc[r] = "python" /\ pc'[r] = "gemini") =>
            LET items == readMemory(file)
                last3 == sliceLast(items, 3)
            IN  /\ file' = file
                /\ prompt'[r].message = message[r].text
                /\ prompt'[r].context =
                      IF items = <<>> THEN "(no recent context)" ELSE ContextLines(last3)
                /\ \A q \in Requests \ {r} :
                      (Completed(q) /\ StoredAt(q, Len(items))) =>
                          includes(prompt'[r].context, UserBotLines(added[q][1]))
      ]_vars

C29_Witness ==
    \E r, q \in Requests :
        /\ r # q
        /\ pc[r] = "gemini" /\ reqId[r] = 1
        /\ Completed(q) /\ reqId[q] = 2
        /\ message[q].text # message[r].text
        /\ includes(prompt[r].context, "User: " \o message[q].text)


\* The step in which a quick-reply timer fires, a fetch is started, a fetch settles
TimerStep == Len(client'.timers) < Len(client.timers)
SendStep == client'.sent = client.sent + 1
SettleStep == Len(client'.inFlight) < Len(client.inFlight)

LastOf(seq) == seq[Len(seq)]

\* C21: when the timer of a quick-reply click fires, a request whose message
\* is the reply clicked is issued and the reply is appended as the user
\* message, whatever the input field held before the click
C21_QuickReplySendsItsText ==
    [][TimerStep =>
          /\ SendStep
          /\ LastOf(client'.inFlight) \in ClickedReplies
          /\ LastOf(client'.messages) = [from |-> "user", text |-> LastOf(client'.inFlight)]
      ]_vars

\* The replies that carry a numeric level, with that level
LevelOfReply ==
    [t \in {f.body.response : f \in {g \in FetchResults :
                /\ g.kind = "ok"
                /\ ~HasField(g.body, "error")
                /\ HasField(g.body, "stressLevel")}} |->
        (CHOOSE f \in FetchResults :
            f.kind = "ok" /\ HasField(f.body, "response") /\ f.body.response = t).body.stressLevel]

\* The positions of the level-bearing replies among the messages shown
LevelBearing ==
    {i \in 1..Len(client.messages) :
        client.messages[i].from = "bot" /\ client.messages[i].text \in DOMAIN LevelOfReply}

\* C22: the stress level of the page is within 0..3 and equals the level of
\* the most recently received response that carried one, 0 if none did: a
\* response without a level and a failed request leave it as it was
C22_StressLevelFollowsResponses ==
    /\ client.stressLevel \in 0..3
    /\ client.stressLevel =
          IF LevelBearing = {} THEN 0
          ELSE LevelOfReply[client.messages[
                   CHOOSE i \in LevelBearing : \A j \in LevelBearing : j <= i].text]

\* The texts shown for a request that failed
ErrorTexts ==
    {"Unable to connect to the server. Please make sure the backend is running.",
     "Server error. Please try again later.",
     "Sorry, I am having trouble responding right now."}

\* C30: a send is accepted on a non-blank text only; it appends the user
\* message at once and sets loading; each settled request appends exactly one
\* bot message, the reply or an error text, and resets loading; nothing else
\* changes the messages, and a timer that fires on a blank text only goes away
C30_SendThenOneBotMessage ==
    /\ [](Len(client.messages) = 1 + client.sent + (client.sent - Len(client.inFlight)))
    /\ [][/\ SendStep =>
               /\ trim(LastOf(client'.inFlight)) # ""
               /\ client'.inFlight = Append(client.inFlight, LastOf(client'.inFlight))
               /\ client'.messages =
                     Append(client.messages,
                            [from |-> "user", text |-> LastOf(client'.inFlight)])
               /\ client'.loading
               /\ client'.input = ""
          /\ SettleStep =>
               /\ Len(client'.inFlight) = Len(client.inFlight) - 1
               /\ Len(client'.messages) = Len(client.messages) + 1
               /\ SubSeq(client'.messages, 1, Len(client.messages)) = client.messages
               /\ LastOf(client'.messages).from = "bot"
               /\ LastOf(client'.messages).text \in
                     ErrorTexts \cup {"Breathe slowly.", "I hear your pain.", "I'm here to listen."}
               /\ ~client'.loading
               /\ client'.sent = client.sent
          /\ client'.messages # client.messages => (SendStep \/ SettleStep)
          /\ Len(client'.inFlight) > Len(client.inFlight) => SendStep
          /\ (TimerStep /\ trim(Head(client.timers)) = "") =>
                client' = [client EXCEPT !.timers = Tail(@)]
       ]_vars

C30_Witness ==
    /\ client.sent = 2
    /\ client.inFlight = <<>>
    /\ ~client.loading
    /\ Len(client.messages) = 5
    /\ client.messages[2] = [from |-> "user", text |-> "hi"]
    /\ client.messages[3].text = "I hear your pain."
    /\ client.messages[5].text \in ErrorTexts

-----------------------------------------------------------------------------
(* Properties of the escalation state machine *)

\* The number of messages sent so far that match a death keyword
DeathMentions ==
    Cardinality({i \in 1..Len(escalation.sentTexts) :
                    matchesDeathKeyword(escalation.sentTexts[i])})

\* The last message sent matches a death keyword
CurrentTurnMatched ==
    /\ escalation.sentTexts # <<>>
    /\ matchesDeathKeyword(escalation.sentTexts[Len(escalation.sentTexts)])

====
